---- MODULE Spec2Model ----
(***************************************************************************)
(* LoreCompendium document engine (src/document_engine.py).                *)
(*                                                                         *)
(* Ingestion side: the filesystem under DOC_FOLDER, the watchdog observer  *)
(* (DocumentEventHandler), INGESTION_QUEUE, ingestion_worker, the index    *)
(* manifest (indexed_files.txt) and initialize_vectorstore (startup bulk   *)
(* pass).  Query side: the LangGraph workflow retrieve -> grade_documents  *)
(* -> {transform_query -> retrieve | generate_rag} -> END driven by        *)
(* query_documents.                                                        *)
(*                                                                         *)
(* A file on disk is a version number in 1..MaxVer, 0 stands for "no such  *)
(* file"; each rewrite gives the file a new mtime and a new size, so the   *)
(* signature {mtime, size} of version v is [mtime |-> v, size |-> v], and  *)
(* a signature whose two fields were read around a rewrite mixes two       *)
(* versions.  The chunks one add_documents call inserts for a path are one *)
(* element of store[path], tagged with the version of the content they     *)
(* were split from.                                                        *)
(***************************************************************************)
EXTENDS Integers, Sequences, FiniteSets, TLC

\* ---------------------------------------------------------------- bounds
MaxVer == 2          \* distinct versions (mtime and size) of a file
MaxChanges == 2      \* filesystem changes and reindex requests in one behaviour
MaxPos == 1          \* chunk positions per document: pages or start offsets 0..MaxPos
RaceChanges == 1     \* filesystem changes while two threads initialise the store

\* ------------------------------------------------------ program constants
RETRIEVE_K == 2          \* get_retriever(k=2)
MAX_LOOP_STEP == 3       \* decide_to_generate: loop_step >= 3
RECURSION_LIMIT == 25    \* config = {"recursion_limit": 25}
SNIPPET_LEN == 50        \* doc.page_content[:50]
DOC_FOLDER == "./input"
CHROMA_DB_PATH == "./chroma_store"
SUPPORTED_EXTENSIONS == {".docx", ".pdf", ".xlsx", ".csv", ".txt", ".md"}
ChunkLens == {20, 1000}  \* page_content lengths: shorter than a snippet, a full chunk

Paths == {"a.txt", "b.pdf"}
\* the names watchdog events can carry: the files of Paths, another supported file
\* with an upper-case extension, a name with an unsupported extension, and a
\* supported file whose name starts with "~$"
Names == Paths \cup {"C.PDF", "notes.tmp", "~$a.txt"}
Versions == 1..MaxVer
NoFile == 0
EmptySignature == [k \in {} |-> 0]   \* {}: the signature of an entry read from a legacy list
NoRead == [file_path |-> "none", mtime |-> NoFile]
Inits == {"startup", "query"}      \* threads that may run initialize_vectorstore
None == "None"
Chroma == "Chroma"
NoEvent == [id |-> 0, action |-> "none", file_path |-> "none"]
Mutators == Inits                  \* threads that call _update_manifest
ReindexCaller == "reindex"         \* the thread that calls trigger_reindex
Putters == Inits \cup {ReindexCaller}   \* threads that put on INGESTION_QUEUE
Reader == "reader"                 \* the thread that calls get_indexed_files
ManifestThreads == Mutators \cup {Reader}
NoCall == [action |-> "none", file_path |-> "none"]
EmptyManifest == [p \in {} |-> NoFile]   \* {}: what an absent, empty or broken file reads as
NoResult == [pending |-> TRUE]

VARIABLES
    disk,                \* file_path -> version of the file in DOC_FOLDER, 0 if absent
    dirs,                \* the directories among DOC_FOLDER and CHROMA_DB_PATH that exist
    store,               \* file_path -> sequence of inserted chunk groups (content versions)
    INDEXED_FILES,       \* the file at INDEXED_FILES_PATH: the persisted index manifest
    GLOBAL_VECTORSTORE,  \* None or the Chroma handle
    INGESTION_QUEUE,     \* FIFO of events (id, action, file_path)
    nextId,              \* id of the next event put on the queue
    changes,             \* filesystem changes and reindex requests so far
    storeFaults,         \* whether calls into the vector store may raise in this run
    observers,           \* the init threads whose Observer has been started
    inbox,               \* per putting thread: the (action, path) tuples it has still to put
    ipc,                 \* initialize_vectorstore: position of each calling thread
    inew, iupd, idel,    \* its locals new_files, updated_files, deleted_files
    idocs,               \* its local docs: loaded path -> loaded content version
    imanifest,           \* its local manifest (line 250)
    icurrent,            \* its local current_files: path -> signature read (line 258)
    sigread,             \* per thread, inside _get_file_signature: the path and the mtime
                         \* read at line 118 while the size is still to be read
    itodo,               \* the paths its current loop has still to visit
    wpc,                 \* ingestion_worker: position of each started worker thread
    wcur,                \* the event the worker dequeued
    wdocs,               \* the worker's local docs (content version, 0 = empty)
    done,                \* ids of the events whose processing ended, in that order
    raised,              \* ids of the events whose processing ended in an except branch
    bulkRuns,            \* number of bulk passes begun
    loadFailed,          \* file_path -> version of the file when its latest load yielded
                         \* nothing, 0 if the latest load succeeded or none was tried
    MANIFEST_LOCK,       \* None or the thread inside "with MANIFEST_LOCK"
    mpc,                 \* _update_manifest / get_indexed_files: position of each caller
    mlocal,              \* the caller's local dict "manifest"
    margs,               \* the caller's arguments (action, file_path)
    qpc,                 \* the workflow node about to run for the current query
    question,            \* GraphState.question (number of rewrites applied to the input)
    documents,           \* GraphState.documents
    loop_step,           \* GraphState.loop_step
    generation,          \* GraphState.generation
    steps,               \* supersteps the graph has run (recursion_limit)
    transformRuns,       \* times transform_query ran in this query
    generateRuns,        \* times generate_rag ran in this query
    scores,              \* the binary_score values of the latest grader batch
    context,             \* the formatted context entries generate_rag gave the model
    include_sources,     \* query_documents' parameter
    result,              \* NoResult or what query_documents returned
    upstream             \* "up": model/embedding services answer; "flaky": a call may raise

ingestVars == <<disk, dirs, store, INDEXED_FILES, GLOBAL_VECTORSTORE, INGESTION_QUEUE,
                nextId, changes, storeFaults, observers, inbox, ipc, inew, iupd, idel,
                idocs, imanifest, icurrent, sigread, itodo, wpc, wcur, wdocs, done,
                raised, bulkRuns, loadFailed>>
queryVars == <<qpc, question, documents, loop_step, generation, steps,
               transformRuns, generateRuns, scores, context, include_sources, result,
               upstream>>
lockVars == <<MANIFEST_LOCK, mpc, mlocal, margs>>
vars == <<ingestVars, queryVars, lockVars>>

\* ------------------------------------------------------------ helpers
\* dict.pop(key, None) on a function
Pop(m, p) == [x \in DOMAIN m \ {p} |-> m[x]]

\* m[p] = v on a function
Put(m, p, v) == [x \in DOMAIN m \cup {p} |-> IF x = p THEN v ELSE m[x]]

\* os.path.getmtime, os.path.getsize
getmtime(d, p) == d[p]
getsize(d, p) == d[p]

\* the dict _get_file_signature builds from its two reads
Signature(mtime, size) == [mtime |-> mtime, size |-> size]

\* _get_file_signature when the file is not rewritten between the two reads
get_file_signature(d, p) == Signature(getmtime(d, p), getsize(d, p))

\* os.path.exists
exists(d, p) == d[p] # NoFile

\* the file at INDEXED_FILES_PATH: missing, empty (just opened for writing), a JSON
\* object path -> signature, or the newline-separated path list of earlier versions
Absent == [format |-> "absent"]
Truncated == [format |-> "empty"]
LegacyLines == {"a.txt", "b.pdf", ""}
LegacyFiles == {[format |-> "legacy", lines |-> l] : l \in [1..2 -> LegacyLines]}

\* _load_index_manifest
load_index_manifest_json_only(f) ==
    IF f.format = "json" THEN f.object ELSE EmptyManifest
load_index_manifest(f) ==
    CASE f.format = "absent" -> EmptyManifest
      [] f.format = "empty" -> EmptyManifest
      [] f.format = "json" -> f.object
      [] f.format = "legacy" ->
           [p \in {f.lines[i] : i \in DOMAIN f.lines} \ {""} |-> EmptySignature]

\* _write_index_manifest: json.dump(manifest, f, indent=2)
write_index_manifest(m) == [format |-> "json", object |-> m]

\* what every reader of the manifest sees: _load_index_manifest()
manifest == load_index_manifest(INDEXED_FILES)

\* _update_manifest on the dict it loaded: the pop of a delete, or the entry set for
\* a file that exists, sig being the signature read for it
update_manifest_forgets_add(m, action, p, sig) ==
    IF action = "delete" THEN Pop(m, p) ELSE m
update_manifest(m, action, p, sig) ==
    IF action = "delete" THEN Pop(m, p) ELSE Put(m, p, sig)

\* load_document_by_extension: the content version read, 0 for an empty result
\* (missing file, unsupported extension, or a loader exception, which is caught)
load_document_by_extension(d, p, loaderOk) ==
    IF ~exists(d, p) THEN 0
    ELSE IF loaderOk THEN d[p] ELSE 0

\* how a call into the vector store can end: TRUE returns, FALSE raises
StoreOutcomes == IF storeFaults THEN BOOLEAN ELSE {TRUE}

\* vectorstore.delete(where={"source": file_path})
store_delete(s, p) == [s EXCEPT ![p] = <<>>]

\* vectorstore.add_documents(splits) for the chunks of one file
store_add(s, p, v) == [s EXCEPT ![p] = Append(@, v)]

\* INGESTION_QUEUE.put((action, path)): the event gets the next id
put(q, id, tuple) == Append(q, [id |-> id, action |-> tuple[1], file_path |-> tuple[2]])


\* os.path.splitext(file_path)[1] of the file names of the model
extension(p) ==
    CASE p = "a.txt" -> ".txt"
      [] p = "b.pdf" -> ".pdf"
      [] p = "C.PDF" -> ".PDF"
      [] p = "notes.tmp" -> ".tmp"
      [] p = "~$a.txt" -> ".txt"
      [] OTHER -> ""

\* str.lower() on an extension
lower(ext) == IF ext = ".PDF" THEN ".pdf" ELSE ext

\* file.startswith("~$")
startswith_lock_prefix(p) == p = "~$a.txt"


\* ---------------------------------------------- filesystem and watcher
\* path.lower().endswith(SUPPORTED_EXTENSIONS)
supported_case_sensitive(p) == extension(p) \in SUPPORTED_EXTENSIONS
supported(p) == lower(extension(p)) \in SUPPORTED_EXTENSIONS

\* a watchdog event
FsKinds == {"created", "modified", "deleted", "moved"}
FsEvents(kind) ==
    [src_path : Names, dest_path : IF kind = "moved" THEN Names ELSE {"none"},
     is_directory : BOOLEAN]
FileEvent(p, q) == [src_path |-> p, dest_path |-> q, is_directory |-> FALSE]

\* DocumentEventHandler: the (action, path) tuples each handler puts on the queue
on_created(event) ==
    IF ~event.is_directory /\ supported(event.src_path)
    THEN << <<"add", event.src_path>> >> ELSE <<>>

on_modified(event) ==
    IF ~event.is_directory /\ supported(event.src_path)
    THEN << <<"update", event.src_path>> >> ELSE <<>>

on_deleted(event) ==
    IF ~event.is_directory /\ supported(event.src_path)
    THEN << <<"delete", event.src_path>> >> ELSE <<>>

on_moved_add_first(event) ==
    IF ~event.is_directory
    THEN (IF supported(event.dest_path) THEN << <<"add", event.dest_path>> >> ELSE <<>>)
         \o (IF supported(event.src_path) THEN << <<"delete", event.src_path>> >> ELSE <<>>)
    ELSE <<>>
on_moved(event) ==
    IF ~event.is_directory
    THEN (IF supported(event.src_path) THEN << <<"delete", event.src_path>> >> ELSE <<>>)
         \o (IF supported(event.dest_path) THEN << <<"add", event.dest_path>> >> ELSE <<>>)
    ELSE <<>>

\* FileSystemEventHandler.dispatch
dispatch(kind, event) ==
    CASE kind = "created" -> on_created(event)
      [] kind = "modified" -> on_modified(event)
      [] kind = "deleted" -> on_deleted(event)
      [] kind = "moved" -> on_moved(event)

\* every running Observer receives the event; the thread of each Observer calls its
\* own handler, whose puts are then still to come (inbox), in the order of the events
Emit(evs) ==
    /\ changes < MaxChanges
    /\ changes' = changes + 1
    /\ inbox' = [t \in DOMAIN inbox |->
                    IF t \in observers THEN inbox[t] \o evs ELSE inbox[t]]

\* what the change behind an event does to the files on the model's disk d;
\* directories and the other names of the folder are not on it.  Empty when the change
\* cannot happen on disk d.
disk_after(d, kind, event) ==
    LET s == event.src_path
        t == event.dest_path
    IN  IF event.is_directory
        THEN IF s \in DOMAIN d \/ t \in DOMAIN d THEN {} ELSE {d}
        ELSE CASE kind = "created" ->
                    IF s \notin DOMAIN d THEN {d}
                    ELSE IF d[s] # NoFile THEN {}
                    ELSE {[d EXCEPT ![s] = v] : v \in Versions}
               [] kind = "modified" ->
                    IF s \notin DOMAIN d THEN {d}
                    ELSE IF d[s] = NoFile THEN {}
                    ELSE {[d EXCEPT ![s] = v] : v \in Versions \ {d[s]}}
               [] kind = "deleted" ->
                    IF s \notin DOMAIN d THEN {d}
                    ELSE IF d[s] = NoFile THEN {}
                    ELSE {[d EXCEPT ![s] = NoFile]}
               [] kind = "moved" ->
                    IF s = t THEN {}
                    ELSE IF s \in DOMAIN d
                    THEN IF d[s] = NoFile THEN {}
                         ELSE IF t \in DOMAIN d
                         THEN {[d EXCEPT ![s] = NoFile, ![t] = d[s]]}
                         ELSE {[d EXCEPT ![s] = NoFile]}
                    ELSE IF t \in DOMAIN d THEN {[d EXCEPT ![t] = v] : v \in Versions}
                    ELSE {d}

\* a change under DOC_FOLDER and the delivery of its event to the running observers
Watch(kind, event) ==
    /\ DOC_FOLDER \in dirs
    /\ disk' \in disk_after(disk, kind, event)
    /\ Emit(dispatch(kind, event))
    /\ UNCHANGED <<dirs, store, INDEXED_FILES, GLOBAL_VECTORSTORE, INGESTION_QUEUE, nextId,
                   storeFaults, observers, ipc, inew, iupd, idel, idocs, imanifest,
                   icurrent, sigread, itodo, wpc, wcur, wdocs, done, raised, bulkRuns,
                   loadFailed, MANIFEST_LOCK, mpc, mlocal, margs, queryVars>>

\* a supported file is created under DOC_FOLDER (on_created)
FsCreate(p) == Watch("created", FileEvent(p, "none"))

\* a supported file is rewritten: new mtime/size (on_modified)
FsModify(p) == Watch("modified", FileEvent(p, "none"))

\* a supported file is removed (on_deleted)
FsDelete(p) == Watch("deleted", FileEvent(p, "none"))

\* a supported file is renamed onto another supported path, replacing what was there;
\* the file keeps its mtime and size (on_moved: delete old, add new)
FsMove(p, q) == Watch("moved", FileEvent(p, q))

\* one INGESTION_QUEUE.put of thread t: the handler of observer t running on_created,
\* on_modified, on_deleted or on_moved, or the caller of trigger_reindex
HandlerPut(t) ==
    /\ inbox[t] # <<>>
    /\ INGESTION_QUEUE' = put(INGESTION_QUEUE, nextId, Head(inbox[t]))
    /\ nextId' = nextId + 1
    /\ inbox' = [inbox EXCEPT ![t] = Tail(@)]
    /\ UNCHANGED <<disk, dirs, store, INDEXED_FILES, GLOBAL_VECTORSTORE, changes,
                   storeFaults, observers, ipc, inew, iupd, idel, idocs, imanifest,
                   icurrent, sigread, itodo, wpc, wcur, wdocs, done, raised, bulkRuns,
                   loadFailed, MANIFEST_LOCK, mpc, mlocal, margs, queryVars>>

\* ------------------------------------------------------ _update_manifest
\* The call is followed statement by statement, for the threads that may be inside it
\* at the same time and for the readers that take no lock (get_indexed_files, and
\* initialize_vectorstore at its first statement after the store is set).  The
\* manifest file reads as {} while it is truncated (_load_index_manifest: "if not raw:
\* return {}").  The bulk pass of thread t is over when the worker it starts begins,
\* so one position per t serves both.

\* threading.Lock.acquire: blocks while another thread holds the lock
acquires_always(lock) == TRUE
can_acquire(lock) == lock = None

\* thread t calls _update_manifest(action, file_path) and reaches "with MANIFEST_LOCK:"
Call(t, action, p) ==
    /\ margs' = [margs EXCEPT ![t] = [action |-> action, file_path |-> p]]
    /\ mpc' = [mpc EXCEPT ![t] = "acquire"]
    /\ UNCHANGED <<MANIFEST_LOCK, mlocal>>

\* a call from a thread whose other steps are not followed
MEnter(t, action, p) ==
    /\ mpc[t] \in {"idle", "raised"}
    /\ Call(t, action, p)
    /\ UNCHANGED <<disk, dirs, store, INDEXED_FILES, GLOBAL_VECTORSTORE, INGESTION_QUEUE,
                   nextId, changes, storeFaults, observers, inbox, ipc, inew, iupd, idel,
                   idocs, imanifest, icurrent, sigread, itodo, wpc, wcur, wdocs, done,
                   raised, bulkRuns, loadFailed, queryVars>>

\* with MANIFEST_LOCK:
MAcquire(t) ==
    /\ mpc[t] = "acquire"
    /\ can_acquire(MANIFEST_LOCK)
    /\ MANIFEST_LOCK' = t
    /\ mpc' = [mpc EXCEPT ![t] = "load"]
    /\ UNCHANGED <<disk, dirs, store, INDEXED_FILES, GLOBAL_VECTORSTORE, INGESTION_QUEUE,
                   nextId, changes, storeFaults, observers, inbox, ipc, inew, iupd, idel,
                   idocs, imanifest, icurrent, sigread, itodo, wpc, wcur, wdocs, done,
                   raised, bulkRuns, loadFailed, mlocal, margs, queryVars>>

\* leaving the with block: the lock is released and the call returns
MReturn(t) ==
    /\ MANIFEST_LOCK' = None
    /\ mpc' = [mpc EXCEPT ![t] = "idle"]
    /\ mlocal' = [mlocal EXCEPT ![t] = EmptyManifest]
    /\ margs' = [margs EXCEPT ![t] = NoCall]

\* leaving the with block by an exception: the lock is released, the caller sees it
MRaise(t) ==
    /\ MANIFEST_LOCK' = None
    /\ mpc' = [mpc EXCEPT ![t] = "raised"]
    /\ mlocal' = [mlocal EXCEPT ![t] = EmptyManifest]
    /\ margs' = [margs EXCEPT ![t] = NoCall]

\* manifest = _load_index_manifest(); "delete": manifest.pop(file_path, None);
\* otherwise "if os.path.exists(file_path)", and a return without writing if not
MLoad(t) ==
    /\ mpc[t] = "load"
    /\ IF margs[t].action = "delete"
       THEN /\ mlocal' = [mlocal EXCEPT ![t] =
                             update_manifest(manifest, "delete", margs[t].file_path,
                                             EmptySignature)]
            /\ mpc' = [mpc EXCEPT ![t] = "open"]
            /\ UNCHANGED <<MANIFEST_LOCK, margs>>
       ELSE IF exists(disk, margs[t].file_path)
       THEN /\ mlocal' = [mlocal EXCEPT ![t] = manifest]
            /\ mpc' = [mpc EXCEPT ![t] = "sig"]
            /\ UNCHANGED <<MANIFEST_LOCK, margs>>
       ELSE MReturn(t)
    /\ UNCHANGED <<disk, dirs, store, INDEXED_FILES, GLOBAL_VECTORSTORE, INGESTION_QUEUE,
                   nextId, changes, storeFaults, observers, inbox, ipc, inew, iupd, idel,
                   idocs, imanifest, icurrent, sigread, itodo, wpc, wcur, wdocs, done,
                   raised, bulkRuns, loadFailed, queryVars>>

\* _get_file_signature(file_path), first read: os.path.getmtime raises
\* FileNotFoundError when the file has been removed since os.path.exists
MSig(t) ==
    /\ mpc[t] = "sig"
    /\ IF exists(disk, margs[t].file_path)
       THEN /\ sigread' = [sigread EXCEPT ![t] =
                              [file_path |-> margs[t].file_path,
                               mtime |-> getmtime(disk, margs[t].file_path)]]
            /\ mpc' = [mpc EXCEPT ![t] = "size"]
            /\ UNCHANGED <<MANIFEST_LOCK, mlocal, margs>>
       ELSE MRaise(t) /\ UNCHANGED sigread
    /\ UNCHANGED <<disk, dirs, store, INDEXED_FILES, GLOBAL_VECTORSTORE, INGESTION_QUEUE,
                   nextId, changes, storeFaults, observers, inbox, ipc, inew, iupd, idel,
                   idocs, imanifest, icurrent, itodo, wpc, wcur, wdocs, done, raised,
                   bulkRuns, loadFailed, queryVars>>

\* second read: os.path.getsize, which raises when the file has been removed since
\* the first; manifest[file_path] = the signature made of the two reads
MSize(t) ==
    /\ mpc[t] = "size"
    /\ sigread' = [sigread EXCEPT ![t] = NoRead]
    /\ IF exists(disk, margs[t].file_path)
       THEN /\ mlocal' = [mlocal EXCEPT ![t] =
                             update_manifest(mlocal[t], "add", margs[t].file_path,
                                             Signature(sigread[t].mtime,
                                                       getsize(disk, margs[t].file_path)))]
            /\ mpc' = [mpc EXCEPT ![t] = "open"]
            /\ UNCHANGED <<MANIFEST_LOCK, margs>>
       ELSE MRaise(t)
    /\ UNCHANGED <<disk, dirs, store, INDEXED_FILES, GLOBAL_VECTORSTORE, INGESTION_QUEUE,
                   nextId, changes, storeFaults, observers, inbox, ipc, inew, iupd, idel,
                   idocs, imanifest, icurrent, itodo, wpc, wcur, wdocs, done, raised,
                   bulkRuns, loadFailed, queryVars>>

\* _write_index_manifest: open(INDEXED_FILES_PATH, "w") truncates the file
MOpen(t) ==
    /\ mpc[t] = "open"
    /\ INDEXED_FILES' = Truncated
    /\ mpc' = [mpc EXCEPT ![t] = "dump"]
    /\ UNCHANGED <<disk, dirs, store, GLOBAL_VECTORSTORE, INGESTION_QUEUE, nextId, changes,
                   storeFaults, observers, inbox, ipc, inew, iupd, idel, idocs, imanifest,
                   icurrent, sigread, itodo, wpc, wcur, wdocs, done, raised, bulkRuns,
                   loadFailed, MANIFEST_LOCK, mlocal, margs, queryVars>>

\* json.dump(manifest, f, indent=2), the file is closed, the with block is left
MDump(t) ==
    /\ mpc[t] = "dump"
    /\ INDEXED_FILES' = write_index_manifest(mlocal[t])
    /\ MReturn(t)
    /\ UNCHANGED <<disk, dirs, store, GLOBAL_VECTORSTORE, INGESTION_QUEUE, nextId, changes,
                   storeFaults, observers, inbox, ipc, inew, iupd, idel, idocs, imanifest,
                   icurrent, sigread, itodo, wpc, wcur, wdocs, done, raised, bulkRuns,
                   loadFailed, queryVars>>

\* the next statement of thread t inside _update_manifest
UpdateManifestStep(t) ==
    MAcquire(t) \/ MLoad(t) \/ MSig(t) \/ MSize(t) \/ MOpen(t) \/ MDump(t)

\* a thread calls get_indexed_files()
RCall ==
    /\ mpc[Reader] = "idle"
    /\ mpc' = [mpc EXCEPT ![Reader] = "load"]
    /\ UNCHANGED <<disk, dirs, store, INDEXED_FILES, GLOBAL_VECTORSTORE, INGESTION_QUEUE,
                   nextId, changes, storeFaults, observers, inbox, ipc, inew, iupd, idel,
                   idocs, imanifest, icurrent, sigread, itodo, wpc, wcur, wdocs, done,
                   raised, bulkRuns, loadFailed, MANIFEST_LOCK, mlocal, margs, queryVars>>

\* return _load_index_manifest(): the file is read as it is now, no lock is taken
RLoad ==
    /\ mpc[Reader] = "load"
    /\ mlocal' = [mlocal EXCEPT ![Reader] = manifest]
    /\ mpc' = [mpc EXCEPT ![Reader] = "idle"]
    /\ UNCHANGED <<disk, dirs, store, INDEXED_FILES, GLOBAL_VECTORSTORE, INGESTION_QUEUE,
                   nextId, changes, storeFaults, observers, inbox, ipc, inew, iupd, idel,
                   idocs, imanifest, icurrent, sigread, itodo, wpc, wcur, wdocs, done,
                   raised, bulkRuns, loadFailed, MANIFEST_LOCK, margs, queryVars>>

ManifestNext ==
    \/ \E t \in Mutators : \E action \in {"add", "delete"} : \E p \in Paths :
          MEnter(t, action, p)
    \/ \E t \in Mutators : UpdateManifestStep(t)
    \/ RCall
    \/ RLoad

\* ------------------------------------------------------ ingestion_worker
\* where the loop resumes after an exception of one event was caught and printed
ExceptPcStops == "dead"
ExceptPc == "get"

\* "if action == 'update'": the branch that deletes the path's chunks before loading
deletes_first(action) == action = "update"

\* INGESTION_QUEUE.task_done() and back to the top of the loop
Finish(w) ==
    /\ wpc' = [wpc EXCEPT ![w] = "get"]
    /\ done' = Append(done, wcur[w].id)
    /\ raised' = raised
    /\ wcur' = [wcur EXCEPT ![w] = NoEvent]
    /\ wdocs' = [wdocs EXCEPT ![w] = 0]

\* an exception of one event caught by "except Exception as e: print(...)"
Except(w) ==
    /\ wpc' = [wpc EXCEPT ![w] = ExceptPc]
    /\ done' = Append(done, wcur[w].id)
    /\ raised' = raised \cup {wcur[w].id}
    /\ wcur' = [wcur EXCEPT ![w] = NoEvent]
    /\ wdocs' = [wdocs EXCEPT ![w] = 0]

\* action, file_path = INGESTION_QUEUE.get()
WGet(w) ==
    /\ wpc[w] = "get"
    /\ INGESTION_QUEUE # <<>>
    /\ wcur' = [wcur EXCEPT ![w] = Head(INGESTION_QUEUE)]
    /\ INGESTION_QUEUE' = Tail(INGESTION_QUEUE)
    /\ wpc' = [wpc EXCEPT ![w] = "sleep"]
    /\ UNCHANGED <<disk, dirs, store, INDEXED_FILES, GLOBAL_VECTORSTORE, nextId, changes,
                   storeFaults, observers, inbox, ipc, inew, iupd, idel, idocs, imanifest,
                   icurrent, sigread, itodo, wdocs, done, raised, bulkRuns, loadFailed,
                   MANIFEST_LOCK, mpc, mlocal, margs, queryVars>>

\* after the debounce: "if GLOBAL_VECTORSTORE is None: task_done(); continue".
\* No behaviour takes this branch (WorkerHasStore below), so no Next lists it.
WNoStore(w) ==
    /\ wpc[w] = "sleep"
    /\ GLOBAL_VECTORSTORE = None
    /\ Finish(w)
    /\ UNCHANGED <<disk, dirs, store, INDEXED_FILES, GLOBAL_VECTORSTORE, INGESTION_QUEUE,
                   nextId, changes, storeFaults, observers, inbox, ipc, inew, iupd, idel,
                   idocs, imanifest, icurrent, sigread, itodo, bulkRuns, loadFailed,
                   MANIFEST_LOCK, mpc, mlocal, margs, queryVars>>

\* action == "delete": GLOBAL_VECTORSTORE.delete(...), then the call of
\* _update_manifest("delete", file_path); an exception of the delete skips the call
WDelete(w) ==
    /\ wpc[w] = "sleep"
    /\ GLOBAL_VECTORSTORE # None
    /\ wcur[w].action = "delete"
    /\ \E ok \in StoreOutcomes :
         IF ok
         THEN /\ store' = store_delete(store, wcur[w].file_path)
              /\ Call(w, "delete", wcur[w].file_path)
              /\ wpc' = [wpc EXCEPT ![w] = "deleted"]
              /\ UNCHANGED <<wcur, wdocs, done, raised>>
         ELSE /\ UNCHANGED <<store, lockVars>>
              /\ Except(w)
    /\ UNCHANGED <<disk, dirs, INDEXED_FILES, GLOBAL_VECTORSTORE, INGESTION_QUEUE, nextId,
                   changes, storeFaults, observers, inbox, ipc, inew, iupd, idel, idocs,
                   imanifest, icurrent, sigread, itodo, bulkRuns, loadFailed, queryVars>>

\* _update_manifest("delete", file_path) has returned: task_done()
WDeleted(w) ==
    /\ wpc[w] = "deleted"
    /\ mpc[w] = "idle"
    /\ Finish(w)
    /\ UNCHANGED <<disk, dirs, store, INDEXED_FILES, GLOBAL_VECTORSTORE, INGESTION_QUEUE,
                   nextId, changes, storeFaults, observers, inbox, ipc, inew, iupd, idel,
                   idocs, imanifest, icurrent, sigread, itodo, bulkRuns, loadFailed,
                   MANIFEST_LOCK, mpc, mlocal, margs, queryVars>>

\* action in ["add", "update"]: the delete-first of an update (a failure is passed over)
WPreDelete(w) ==
    /\ wpc[w] = "sleep"
    /\ GLOBAL_VECTORSTORE # None
    /\ wcur[w].action \in {"add", "update"}
    /\ IF deletes_first(wcur[w].action)
       THEN \E ok \in StoreOutcomes :
              store' = IF ok THEN store_delete(store, wcur[w].file_path) ELSE store
       ELSE store' = store
    /\ wpc' = [wpc EXCEPT ![w] = "load"]
    /\ UNCHANGED <<disk, dirs, INDEXED_FILES, GLOBAL_VECTORSTORE, INGESTION_QUEUE, nextId,
                   changes, storeFaults, observers, inbox, ipc, inew, iupd, idel, idocs,
                   imanifest, icurrent, sigread, itodo, wcur, wdocs, done, raised,
                   bulkRuns, loadFailed, MANIFEST_LOCK, mpc, mlocal, margs, queryVars>>

\* "if docs:" ... "if splits:": whether the load gave anything to insert
proceeds_anyway(docs) == TRUE
has_content(docs) == docs # 0

\* docs = load_document_by_extension(file_path); "if docs:" ... "if splits:"
WLoad(w) ==
    /\ wpc[w] = "load"
    /\ \E loaderOk \in BOOLEAN :
         LET docs == load_document_by_extension(disk, wcur[w].file_path, loaderOk) IN
         /\ loadFailed' = [loadFailed EXCEPT ![wcur[w].file_path] =
                              IF docs = 0 THEN disk[wcur[w].file_path]
                              ELSE 0]
         /\ IF ~has_content(docs)
            THEN Finish(w)
            ELSE /\ wdocs' = [wdocs EXCEPT ![w] = docs]
                 /\ wpc' = [wpc EXCEPT ![w] = "add"]
                 /\ UNCHANGED <<wcur, done, raised>>
    /\ UNCHANGED <<disk, dirs, store, INDEXED_FILES, GLOBAL_VECTORSTORE, INGESTION_QUEUE,
                   nextId, changes, storeFaults, observers, inbox, ipc, inew, iupd, idel,
                   idocs, imanifest, icurrent, sigread, itodo, bulkRuns, MANIFEST_LOCK,
                   mpc, mlocal, margs, queryVars>>

\* GLOBAL_VECTORSTORE.add_documents(splits), then the call of
\* _update_manifest("add", file_path)
WAdd(w) ==
    /\ wpc[w] = "add"
    /\ \E ok \in StoreOutcomes :
         IF ok
         THEN /\ store' = store_add(store, wcur[w].file_path, wdocs[w])
              /\ Call(w, "add", wcur[w].file_path)
              /\ wpc' = [wpc EXCEPT ![w] = "manifest"]
              /\ UNCHANGED <<wcur, wdocs, done, raised>>
         ELSE /\ UNCHANGED <<store, lockVars>>
              /\ Except(w)
    /\ UNCHANGED <<disk, dirs, INDEXED_FILES, GLOBAL_VECTORSTORE, INGESTION_QUEUE, nextId,
                   changes, storeFaults, observers, inbox, ipc, inew, iupd, idel, idocs,
                   imanifest, icurrent, sigread, itodo, bulkRuns, loadFailed, queryVars>>

\* _update_manifest("add", file_path) has returned: task_done(); or it raised, which
\* "except Exception as e" catches before task_done()
WManifest(w) ==
    /\ wpc[w] = "manifest"
    /\ mpc[w] \in {"idle", "raised"}
    /\ IF mpc[w] = "idle" THEN Finish(w) ELSE Except(w)
    /\ mpc' = [mpc EXCEPT ![w] = "idle"]
    /\ UNCHANGED <<disk, dirs, store, INDEXED_FILES, GLOBAL_VECTORSTORE, INGESTION_QUEUE,
                   nextId, changes, storeFaults, observers, inbox, ipc, inew, iupd, idel,
                   idocs, imanifest, icurrent, sigread, itodo, bulkRuns, loadFailed,
                   MANIFEST_LOCK, mlocal, margs, queryVars>>


\* ------------------------------------------------ initialize_vectorstore
\* files_to_ingest = new_files + updated_files
files_to_ingest(t) == inew[t] \cup iupd[t]

\* an exception leaves initialize_vectorstore: no worker, no observer
IRaise(t) ==
    /\ ipc' = [ipc EXCEPT ![t] = "failed"]
    /\ imanifest' = [imanifest EXCEPT ![t] = EmptyManifest]
    /\ icurrent' = [icurrent EXCEPT ![t] = EmptyManifest]
    /\ itodo' = [itodo EXCEPT ![t] = {}]

\* on_ready -> _startup_init -> initialize_vectorstore()
IStartup ==
    /\ ipc["startup"] = "idle"
    /\ ipc' = [ipc EXCEPT !["startup"] = "construct"]
    /\ UNCHANGED <<disk, dirs, store, INDEXED_FILES, GLOBAL_VECTORSTORE, INGESTION_QUEUE,
                   nextId, changes, storeFaults, observers, inbox, inew, iupd, idel, idocs,
                   imanifest, icurrent, sigread, itodo, wpc, wcur, wdocs, done, raised,
                   bulkRuns, loadFailed, MANIFEST_LOCK, mpc, mlocal, margs, queryVars>>

\* query_documents / get_retriever: "if GLOBAL_VECTORSTORE is None: initialize_vectorstore()"
store_is_unset(g) == g = None

QueryEnsureStore ==
    /\ ipc["query"] = "idle"
    /\ store_is_unset(GLOBAL_VECTORSTORE)
    /\ ipc' = [ipc EXCEPT !["query"] = "construct"]
    /\ UNCHANGED <<disk, dirs, store, INDEXED_FILES, GLOBAL_VECTORSTORE, INGESTION_QUEUE,
                   nextId, changes, storeFaults, observers, inbox, inew, iupd, idel, idocs,
                   imanifest, icurrent, sigread, itodo, wpc, wcur, wdocs, done, raised,
                   bulkRuns, loadFailed, MANIFEST_LOCK, mpc, mlocal, margs, queryVars>>

\* lines 236-239, one statement per step: "if not os.path.exists(DOC_FOLDER)" at
\* "construct", os.makedirs(DOC_FOLDER) at "mkdoc", the same for CHROMA_DB_PATH at
\* "testdb" and "mkdb".  os.makedirs raises FileExistsError when the directory has
\* been made since the test, and nothing in initialize_vectorstore catches it.
dir_at(pc) == IF pc \in {"construct", "mkdoc"} THEN DOC_FOLDER ELSE CHROMA_DB_PATH
makedirs_at(pc) == IF pc = "construct" THEN "mkdoc" ELSE "mkdb"
after_dir(pc) == IF pc \in {"construct", "mkdoc"} THEN "testdb" ELSE "chroma"

IEnsureDirs(t) ==
    /\ ipc[t] \in {"construct", "mkdoc", "testdb", "mkdb"}
    /\ IF ipc[t] \in {"construct", "testdb"}
       THEN /\ ipc' = [ipc EXCEPT ![t] = IF dir_at(ipc[t]) \in dirs
                                         THEN after_dir(ipc[t])
                                         ELSE makedirs_at(ipc[t])]
            /\ UNCHANGED <<dirs, imanifest, icurrent, itodo>>
       ELSE IF dir_at(ipc[t]) \in dirs
       THEN /\ IRaise(t)
            /\ UNCHANGED dirs
       ELSE /\ dirs' = dirs \cup {dir_at(ipc[t])}
            /\ ipc' = [ipc EXCEPT ![t] = after_dir(ipc[t])]
            /\ UNCHANGED <<imanifest, icurrent, itodo>>
    /\ UNCHANGED <<disk, store, INDEXED_FILES, GLOBAL_VECTORSTORE, INGESTION_QUEUE, nextId,
                   changes, storeFaults, observers, inbox, inew, iupd, idel, idocs,
                   sigread, wpc, wcur, wdocs, done, raised, bulkRuns, loadFailed,
                   MANIFEST_LOCK, mpc, mlocal, margs, queryVars>>

\* vectorstore = Chroma(...), which can raise like every call into the store, and
\* GLOBAL_VECTORSTORE = vectorstore
IConstruct(t) ==
    /\ ipc[t] = "chroma"
    /\ \E ok \in StoreOutcomes :
         IF ok
         THEN /\ GLOBAL_VECTORSTORE' = Chroma
              /\ bulkRuns' = bulkRuns + 1
              /\ ipc' = [ipc EXCEPT ![t] = "scan"]
              /\ UNCHANGED <<imanifest, icurrent, itodo>>
         ELSE /\ IRaise(t)
              /\ UNCHANGED <<GLOBAL_VECTORSTORE, bulkRuns>>
    /\ UNCHANGED <<disk, dirs, store, INDEXED_FILES, INGESTION_QUEUE, nextId, changes,
                   storeFaults, observers, inbox, inew, iupd, idel, idocs, sigread, wpc,
                   wcur, wdocs, done, raised, loadFailed, MANIFEST_LOCK, mpc, mlocal,
                   margs, queryVars>>

\* manifest = _load_index_manifest(): the file is read as it is now, no lock is taken
IScan(t) ==
    /\ ipc[t] = "scan"
    /\ imanifest' = [imanifest EXCEPT ![t] = manifest]
    /\ ipc' = [ipc EXCEPT ![t] = "walk"]
    /\ UNCHANGED <<disk, dirs, store, INDEXED_FILES, GLOBAL_VECTORSTORE, INGESTION_QUEUE,
                   nextId, changes, storeFaults, observers, inbox, inew, iupd, idel, idocs,
                   icurrent, sigread, itodo, wpc, wcur, wdocs, done, raised, bulkRuns,
                   loadFailed, MANIFEST_LOCK, mpc, mlocal, margs, queryVars>>

\* the files an os.walk(DOC_FOLDER) lists that pass the two tests on the name:
\* not file.startswith("~$"), file.lower().endswith(SUPPORTED_EXTENSIONS)
walk(d) == {p \in DOMAIN d : exists(d, p) /\ ~startswith_lock_prefix(p) /\ supported(p)}

\* current_files when nothing changes during the walk
current_files(d) == [p \in walk(d) |-> get_file_signature(d, p)]

\* the diff of the manifest m and the signatures cur read by the walk:
\* current_paths = set(current_files.keys()); deleted_files = indexed_files - current_paths;
\* new: not in the manifest; updated: in the manifest with another signature
current_paths(cur) == DOMAIN cur
deleted_files(m, cur) == DOMAIN m \ current_paths(cur)
new_files(m, cur) == {p \in current_paths(cur) : p \notin DOMAIN m}
updated_files_all(m, cur) == {p \in current_paths(cur) : p \in DOMAIN m}
updated_files(m, cur) == {p \in current_paths(cur) : p \in DOMAIN m /\ m[p] # cur[p]}

\* lines 260-271 for thread t; manifest and current_files are not used after them
Diff(t, m, cur) ==
    /\ idel' = [idel EXCEPT ![t] = deleted_files(m, cur)]
    /\ inew' = [inew EXCEPT ![t] = new_files(m, cur)]
    /\ iupd' = [iupd EXCEPT ![t] = updated_files(m, cur)]
    /\ imanifest' = [imanifest EXCEPT ![t] = EmptyManifest]
    /\ icurrent' = [icurrent EXCEPT ![t] = EmptyManifest]
    /\ itodo' = [itodo EXCEPT ![t] = deleted_files(m, cur)]
    /\ ipc' = [ipc EXCEPT ![t] = "delete"]

\* for root, dirs, files in os.walk(DOC_FOLDER): the folder is listed
IWalk(t) ==
    /\ ipc[t] = "walk"
    /\ IF walk(disk) = {}
       THEN Diff(t, imanifest[t], EmptyManifest)
       ELSE /\ itodo' = [itodo EXCEPT ![t] = walk(disk)]
            /\ ipc' = [ipc EXCEPT ![t] = "sig"]
            /\ UNCHANGED <<idel, inew, iupd, imanifest, icurrent>>
    /\ UNCHANGED <<disk, dirs, store, INDEXED_FILES, GLOBAL_VECTORSTORE, INGESTION_QUEUE,
                   nextId, changes, storeFaults, observers, inbox, idocs, sigread, wpc,
                   wcur, wdocs, done, raised, bulkRuns, loadFailed, MANIFEST_LOCK, mpc,
                   mlocal, margs, queryVars>>

\* _get_file_signature(path) for the next listed file, any order of the listing, first
\* read: os.path.getmtime raises when the file is gone by now, and nothing in
\* initialize_vectorstore catches it
ISignature(t) ==
    /\ ipc[t] = "sig"
    /\ sigread[t] = NoRead
    /\ \E p \in itodo[t] :
         IF exists(disk, p)
         THEN /\ sigread' = [sigread EXCEPT ![t] =
                                [file_path |-> p, mtime |-> getmtime(disk, p)]]
              /\ UNCHANGED <<imanifest, icurrent, itodo, ipc>>
         ELSE /\ IRaise(t)
              /\ UNCHANGED sigread
    /\ UNCHANGED <<disk, dirs, store, INDEXED_FILES, GLOBAL_VECTORSTORE, INGESTION_QUEUE,
                   nextId, changes, storeFaults, observers, inbox, inew, iupd, idel, idocs,
                   wpc, wcur, wdocs, done, raised, bulkRuns, loadFailed, MANIFEST_LOCK,
                   mpc, mlocal, margs, queryVars>>

\* second read: os.path.getsize, which raises when the file has been removed since the
\* first; current_files[path] = the signature made of the two reads.  After the last
\* file, the diff.
ISize(t) ==
    /\ ipc[t] = "sig"
    /\ sigread[t] # NoRead
    /\ sigread' = [sigread EXCEPT ![t] = NoRead]
    /\ LET p == sigread[t].file_path IN
         IF exists(disk, p)
         THEN LET cur == Put(icurrent[t], p,
                             Signature(sigread[t].mtime, getsize(disk, p))) IN
              IF itodo[t] = {p}
              THEN Diff(t, imanifest[t], cur)
              ELSE /\ icurrent' = [icurrent EXCEPT ![t] = cur]
                   /\ itodo' = [itodo EXCEPT ![t] = @ \ {p}]
                   /\ UNCHANGED <<idel, inew, iupd, imanifest, ipc>>
         ELSE /\ IRaise(t)
              /\ UNCHANGED <<idel, inew, iupd>>
    /\ UNCHANGED <<disk, dirs, store, INDEXED_FILES, GLOBAL_VECTORSTORE, INGESTION_QUEUE,
                   nextId, changes, storeFaults, observers, inbox, idocs, wpc, wcur, wdocs,
                   done, raised, bulkRuns, loadFailed, MANIFEST_LOCK, mpc, mlocal, margs,
                   queryVars>>

\* for file_path in deleted_files: vectorstore.delete(...), then the call of
\* _update_manifest("delete", file_path); an exception of the delete skips the call.
\* After the loop: "if files_to_ingest:" and the loop over updated_files begins.
IDelete(t) ==
    /\ ipc[t] = "delete"
    /\ mpc[t] = "idle"
    /\ IF itodo[t] = {}
       THEN /\ IF files_to_ingest(t) = {}
               THEN /\ ipc' = [ipc EXCEPT ![t] = "start"]
                    /\ itodo' = itodo
               ELSE /\ ipc' = [ipc EXCEPT ![t] = "predelete"]
                    /\ itodo' = [itodo EXCEPT ![t] = iupd[t]]
            /\ UNCHANGED <<store, lockVars>>
       ELSE \E p \in itodo[t] : \E ok \in StoreOutcomes :
            /\ itodo' = [itodo EXCEPT ![t] = @ \ {p}]
            /\ IF ok
               THEN /\ store' = store_delete(store, p)
                    /\ Call(t, "delete", p)
               ELSE UNCHANGED <<store, lockVars>>
            /\ ipc' = ipc
    /\ UNCHANGED <<disk, dirs, INDEXED_FILES, GLOBAL_VECTORSTORE, INGESTION_QUEUE, nextId,
                   changes, storeFaults, observers, inbox, inew, iupd, idel, idocs,
                   imanifest, icurrent, sigread, wpc, wcur, wdocs, done, raised, bulkRuns,
                   loadFailed, queryVars>>

\* for file_path in updated_files: vectorstore.delete(...), failures passed over;
\* after the loop the loads of files_to_ingest are submitted
IPreDelete(t) ==
    /\ ipc[t] = "predelete"
    /\ IF itodo[t] = {}
       THEN /\ ipc' = [ipc EXCEPT ![t] = "load"]
            /\ itodo' = [itodo EXCEPT ![t] = files_to_ingest(t)]
            /\ idocs' = [idocs EXCEPT ![t] = <<>>]
            /\ store' = store
       ELSE \E p \in itodo[t] : \E ok \in StoreOutcomes :
            /\ store' = IF ok THEN store_delete(store, p) ELSE store
            /\ itodo' = [itodo EXCEPT ![t] = @ \ {p}]
            /\ UNCHANGED <<ipc, idocs>>
    /\ UNCHANGED <<disk, dirs, INDEXED_FILES, GLOBAL_VECTORSTORE, INGESTION_QUEUE, nextId,
                   changes, storeFaults, observers, inbox, inew, iupd, idel, imanifest,
                   icurrent, sigread, wpc, wcur, wdocs, done, raised, bulkRuns, loadFailed,
                   MANIFEST_LOCK, mpc, mlocal, margs, queryVars>>

\* one load of the ProcessPoolExecutor: load_document_by_extension(fp) reads its file
\* when its process runs; docs.extend(loaded_docs).  After the last one: "if docs:"
ILoad(t) ==
    /\ ipc[t] = "load"
    /\ IF itodo[t] = {}
       THEN /\ ipc' = [ipc EXCEPT ![t] = IF DOMAIN idocs[t] = {} THEN "start" ELSE "add"]
            /\ UNCHANGED <<itodo, idocs, loadFailed>>
       ELSE \E p \in itodo[t] : \E loaderOk \in BOOLEAN :
            LET docs == load_document_by_extension(disk, p, loaderOk) IN
            /\ idocs' = [idocs EXCEPT ![t] = IF docs = 0 THEN @ ELSE Put(@, p, docs)]
            /\ loadFailed' = [loadFailed EXCEPT ![p] =
                                 IF docs = 0 THEN disk[p] ELSE 0]
            /\ itodo' = [itodo EXCEPT ![t] = @ \ {p}]
            /\ ipc' = ipc
    /\ UNCHANGED <<disk, dirs, store, INDEXED_FILES, GLOBAL_VECTORSTORE, INGESTION_QUEUE,
                   nextId, changes, storeFaults, observers, inbox, inew, iupd, idel,
                   imanifest, icurrent, sigread, wpc, wcur, wdocs, done, raised, bulkRuns,
                   MANIFEST_LOCK, mpc, mlocal, margs, queryVars>>

\* the paths the bulk pass records: "for file_path in files_to_ingest"
manifest_targets(t) == files_to_ingest(t)

\* vectorstore.add_documents(splits): one bulk insert; an exception leaves the function
IAdd(t) ==
    /\ ipc[t] = "add"
    /\ \E ok \in StoreOutcomes :
         IF ok
         THEN /\ store' = [p \in DOMAIN store |->
                              IF p \in DOMAIN idocs[t] THEN Append(store[p], idocs[t][p])
                              ELSE store[p]]
              /\ ipc' = [ipc EXCEPT ![t] = "manifest"]
              /\ itodo' = [itodo EXCEPT ![t] = manifest_targets(t)]
              /\ UNCHANGED <<imanifest, icurrent>>
         ELSE /\ store' = store
              /\ IRaise(t)
    /\ UNCHANGED <<disk, dirs, INDEXED_FILES, GLOBAL_VECTORSTORE, INGESTION_QUEUE, nextId,
                   changes, storeFaults, observers, inbox, inew, iupd, idel, idocs,
                   sigread, wpc, wcur, wdocs, done, raised, bulkRuns, loadFailed,
                   MANIFEST_LOCK, mpc, mlocal, margs, queryVars>>

\* the next path of "for file_path in files_to_ingest": new_files come first
next_targets(t) == IF itodo[t] \cap inew[t] # {} THEN itodo[t] \cap inew[t] ELSE itodo[t]

\* for file_path in files_to_ingest: the call of _update_manifest("add", file_path),
\* once the call before it has returned; an exception of a call leaves the function
IManifest(t) ==
    /\ ipc[t] = "manifest"
    /\ mpc[t] \in {"idle", "raised"}
    /\ IF mpc[t] = "raised"
       THEN /\ IRaise(t)
            /\ mpc' = [mpc EXCEPT ![t] = "idle"]
            /\ UNCHANGED <<MANIFEST_LOCK, mlocal, margs>>
       ELSE IF itodo[t] = {}
       THEN /\ ipc' = [ipc EXCEPT ![t] = "start"]
            /\ UNCHANGED <<itodo, imanifest, icurrent, lockVars>>
       ELSE \E p \in next_targets(t) :
            /\ Call(t, "add", p)
            /\ itodo' = [itodo EXCEPT ![t] = @ \ {p}]
            /\ UNCHANGED <<ipc, imanifest, icurrent>>
    /\ UNCHANGED <<disk, dirs, store, INDEXED_FILES, GLOBAL_VECTORSTORE, INGESTION_QUEUE,
                   nextId, changes, storeFaults, observers, inbox, inew, iupd, idel, idocs,
                   sigread, wpc, wcur, wdocs, done, raised, bulkRuns, loadFailed,
                   queryVars>>

\* worker_thread = threading.Thread(target=ingestion_worker, daemon=True); start()
IStartWorker(t) ==
    /\ ipc[t] = "start"
    /\ wpc' = [wpc EXCEPT ![t] = "get"]
    /\ ipc' = [ipc EXCEPT ![t] = "observe"]
    /\ UNCHANGED <<disk, dirs, store, INDEXED_FILES, GLOBAL_VECTORSTORE, INGESTION_QUEUE,
                   nextId, changes, storeFaults, observers, inbox, inew, iupd, idel, idocs,
                   imanifest, icurrent, sigread, itodo, wcur, wdocs, done, raised,
                   bulkRuns, loadFailed, MANIFEST_LOCK, mpc, mlocal, margs, queryVars>>

\* observer.schedule(...); observer.start(); return vectorstore
IStartWatcher(t) ==
    /\ ipc[t] = "observe"
    /\ observers' = observers \cup {t}
    /\ ipc' = [ipc EXCEPT ![t] = "done"]
    /\ UNCHANGED <<disk, dirs, store, INDEXED_FILES, GLOBAL_VECTORSTORE, INGESTION_QUEUE,
                   nextId, changes, storeFaults, inbox, inew, iupd, idel, idocs, imanifest,
                   icurrent, sigread, itodo, wpc, wcur, wdocs, done, raised, bulkRuns,
                   loadFailed, MANIFEST_LOCK, mpc, mlocal, margs, queryVars>>

\* ------------------------------------------------------- trigger_reindex
\* the orders in which os.walk can list a set of files: the directory order of the
\* filesystem, which is not sorted
RECURSIVE listings(_)
listings(files) ==
    IF files = {} THEN {<<>>}
    ELSE UNION {{<<p>> \o l : l \in listings(files \ {p})} : p \in files}

\* INGESTION_QUEUE.put(("update", path)) for each listed file, in the order listed
RECURSIVE reindex_events(_)
reindex_events(listing) ==
    IF listing = <<>> THEN <<>>
    ELSE << <<"update", Head(listing)>> >> \o reindex_events(Tail(listing))

\* trigger_reindex(): the folder is listed; the puts of its supported files follow
TriggerReindex ==
    /\ inbox[ReindexCaller] = <<>>
    /\ changes < MaxChanges
    /\ changes' = changes + 1
    /\ \E listing \in listings(walk(disk)) :
          inbox' = [inbox EXCEPT ![ReindexCaller] = reindex_events(listing)]
    /\ UNCHANGED <<disk, dirs, store, INDEXED_FILES, GLOBAL_VECTORSTORE, INGESTION_QUEUE,
                   nextId, storeFaults, observers, ipc, inew, iupd, idel, idocs, imanifest,
                   icurrent, sigread, itodo, wpc, wcur, wdocs, done, raised, bulkRuns,
                   loadFailed, MANIFEST_LOCK, mpc, mlocal, margs, queryVars>>


\* ------------------------------------------------- the query workflow
GradeValues == {"yes", "no", "Yes"}

\* the chunks a search can return: (source, position among the path's chunk groups,
\* position of the chunk in its document: the page for a PDF, the start offset
\* otherwise, length of its page_content)
Chunks(s) ==
    UNION {{<<p, i, n, l>> : i \in 1..Len(s[p]), n \in 0..MaxPos, l \in ChunkLens}
           : p \in Paths}

\* Document.metadata of a stored chunk: PyPDFLoader sets source and page, the other
\* loaders source only; the splitter adds start_index (add_start_index=True)
metadata(c) ==
    IF lower(extension(c[1])) = ".pdf"
    THEN [source |-> <<DOC_FOLDER, c[1]>>, page |-> c[3], start_index |-> 0]
    ELSE [source |-> <<DOC_FOLDER, c[1]>>, start_index |-> c[3]]

\* Document.page_content of a stored chunk: which text, and how many characters
page_content(c) == [text |-> <<c[1], c[2], c[3]>>, len |-> c[4]]

\* os.path.basename(meta.get("source", "Unknown")) on a path of components
basename(meta) ==
    LET source == IF "source" \in DOMAIN meta THEN meta.source ELSE <<"Unknown">>
    IN  source[Len(source)]

\* generate_rag: location of the context header
header_location(meta) ==
    IF "page" \in DOMAIN meta THEN <<"Page ", meta.page + 1>>
    ELSE IF "start_index" \in DOMAIN meta THEN <<"Char Index ", meta.start_index>>
    ELSE <<"Unknown Location">>

\* generate_rag: "[Source: {source_name} | Location: {location}]\n{doc.page_content}"
formatted_entry(c) ==
    [source_name |-> basename(metadata(c)),
     location |-> header_location(metadata(c)),
     page_content |-> page_content(c)]

\* query_documents: location of a citation
citation_location(meta) ==
    IF "page" \in DOMAIN meta THEN <<"Page ", meta.page + 1>>
    ELSE IF "start_index" \in DOMAIN meta THEN <<"Start Char ", meta.start_index>>
    ELSE <<"N/A">>

\* doc.page_content[:50] + "..."
snippet(content) ==
    [text |-> content.text,
     upto |-> IF content.len < SNIPPET_LEN THEN content.len ELSE SNIPPET_LEN,
     suffix |-> "..."]

\* query_documents: sources_data, one entry per document of final_state["documents"]
sources_data_first_only(docs) ==
    IF docs = <<>> THEN <<>>
    ELSE << [file |-> basename(metadata(docs[1])),
             location |-> citation_location(metadata(docs[1])),
             snippet |-> snippet(page_content(docs[1]))] >>
sources_data(docs) ==
    [i \in 1..Len(docs) |->
        [file |-> basename(metadata(docs[i])),
         location |-> citation_location(metadata(docs[i])),
         snippet |-> snippet(page_content(docs[i]))]]

\* retriever.invoke(question): up to k distinct chunks, ranked
Retrievals(s) ==
    {r \in UNION {[1..n -> Chunks(s)] : n \in 0..RETRIEVE_K} :
        \A i, j \in DOMAIN r : i # j => r[i] # r[j]}

\* grade_documents: the documents whose binary_score == "yes", in rank order
RECURSIVE filtered_docs_any_case(_, _)
filtered_docs_any_case(docs, sc) ==
    IF docs = <<>> THEN <<>>
    ELSE LET rest == filtered_docs_any_case(Tail(docs), Tail(sc))
         IN  IF Head(sc) \in {"yes", "Yes"} THEN <<Head(docs)>> \o rest ELSE rest
RECURSIVE filtered_docs(_, _)
filtered_docs(docs, sc) ==
    IF docs = <<>> THEN <<>>
    ELSE LET rest == filtered_docs(Tail(docs), Tail(sc))
         IN  IF Head(sc) = "yes" THEN <<Head(docs)>> \o rest ELSE rest

\* decide_to_generate, with the mapping of add_conditional_edges applied
decide_never_gives_up(docs, ls) ==
    IF docs = <<>> THEN "transform_query" ELSE "generate_rag"
decide_off_by_one(docs, ls) ==
    IF docs = <<>>
    THEN IF ls > MAX_LOOP_STEP THEN "generate_rag" ELSE "transform_query"
    ELSE "generate_rag"
decide_to_generate(docs, ls) ==
    IF docs = <<>>
    THEN IF ls >= MAX_LOOP_STEP THEN "generate_rag" ELSE "transform_query"
    ELSE "generate_rag"

\* 'return f"Error: {e}" if not include_sources else {"error": str(e)}'
error_result(inc) == IF inc THEN [error |-> "e"] ELSE [text |-> <<"Error: ", "e">>]

\* app.stream raising (GraphRecursionError, or an upstream call failing): the except
\* branch of query_documents returns the error result
QRaise ==
    /\ qpc' = "error"
    /\ result' = error_result(include_sources)
    /\ UNCHANGED <<question, documents, loop_step, generation, steps, transformRuns,
                   generateRuns, scores, context, include_sources>>

\* one superstep of the compiled graph, counted against recursion_limit
Superstep(body) ==
    IF steps >= RECURSION_LIMIT THEN QRaise
    ELSE \/ /\ steps' = steps + 1
            /\ body
         \/ /\ upstream = "flaky"
            /\ QRaise

\* the query thread is not inside initialize_vectorstore: "if GLOBAL_VECTORSTORE is
\* None: initialize_vectorstore()" was skipped or has returned
store_ready == IF ipc["query"] = "idle" THEN GLOBAL_VECTORSTORE # None
               ELSE ipc["query"] = "done"

\* query_documents: inputs = {"question": user_input, "loop_step": 0}; app.stream(...)
QStart ==
    /\ qpc = "idle"
    /\ store_ready
    /\ qpc' = "retrieve"
    /\ question' = 0
    /\ loop_step' = 0
    /\ documents' = <<>>
    /\ include_sources' \in BOOLEAN
    /\ UNCHANGED <<generation, steps, transformRuns, generateRuns, scores, context, result,
                   upstream, ingestVars, lockVars>>

\* retrieve
QRetrieve ==
    /\ qpc = "retrieve"
    /\ Superstep(/\ \E r \in Retrievals(store) : documents' = r
                 /\ qpc' = "grade_documents"
                 /\ UNCHANGED <<question, loop_step, generation, transformRuns,
                                generateRuns, scores, context, result, include_sources>>)
    /\ UNCHANGED <<upstream, ingestVars, lockVars>>

\* grade_documents, then the conditional edge
QGrade ==
    /\ qpc = "grade_documents"
    /\ Superstep(/\ \E sc \in [1..Len(documents) -> GradeValues] :
                      /\ scores' = sc
                      /\ documents' = filtered_docs(documents, sc)
                 /\ qpc' = decide_to_generate(documents', loop_step)
                 /\ UNCHANGED <<question, loop_step, generation, transformRuns,
                                generateRuns, context, result, include_sources>>)
    /\ UNCHANGED <<upstream, ingestVars, lockVars>>

\* transform_query
QTransform ==
    /\ qpc = "transform_query"
    /\ Superstep(/\ question' = question + 1
                 /\ loop_step' = loop_step + 1
                 /\ transformRuns' = transformRuns + 1
                 /\ qpc' = "retrieve"
                 /\ UNCHANGED <<documents, generation, generateRuns, scores, context,
                                result, include_sources>>)
    /\ UNCHANGED <<upstream, ingestVars, lockVars>>

\* generate_rag, then END
QGenerate ==
    /\ qpc = "generate_rag"
    /\ Superstep(/\ context' = [i \in 1..Len(documents) |-> formatted_entry(documents[i])]
                 /\ generation' = "answer"
                 /\ generateRuns' = generateRuns + 1
                 /\ qpc' = "end"
                 /\ UNCHANGED <<question, documents, loop_step, transformRuns, scores,
                                result, include_sources>>)
    /\ UNCHANGED <<upstream, ingestVars, lockVars>>

\* after the stream: final_state is generate_rag's output; the answer, with the
\* citation list when include_sources
QReturn ==
    /\ qpc = "end"
    /\ qpc' = "returned"
    /\ result' = IF include_sources
                 THEN [answer |-> generation, citations |-> sources_data(documents)]
                 ELSE [text |-> <<generation>>]
    /\ UNCHANGED <<question, documents, loop_step, generation, steps, transformRuns,
                   generateRuns, scores, context, include_sources, upstream, ingestVars,
                   lockVars>>

QNext == QStart \/ QRetrieve \/ QGrade \/ QTransform \/ QGenerate \/ QReturn

\* how the call of query_documents ended for its caller: line 569 is outside the try,
\* so an exception leaving initialize_vectorstore leaves query_documents too
query_outcome ==
    IF ipc["query"] = "failed" THEN "raised"
    ELSE IF qpc = "error" THEN "error result"
    ELSE IF qpc = "returned" THEN "answer"
    ELSE "running"


\* ------------------------------------------------------- specifications
QueryInit ==
    /\ qpc = "idle"
    /\ question = 0
    /\ documents = <<>>
    /\ loop_step = 0
    /\ generation = "none"
    /\ steps = 0
    /\ transformRuns = 0
    /\ generateRuns = 0
    /\ scores = <<>>
    /\ context = <<>>
    /\ include_sources = FALSE
    /\ result = NoResult

\* no thread is inside _update_manifest or get_indexed_files
ManifestIdle ==
    /\ MANIFEST_LOCK = None
    /\ mpc = [t \in ManifestThreads |-> "idle"]
    /\ mlocal = [t \in ManifestThreads |-> EmptyManifest]
    /\ margs = [t \in ManifestThreads |-> NoCall]

\* what an earlier run left behind: each path either never indexed, or indexed at
\* version 1; while the process was down each file was left alone, rewritten or removed
Persisted ==
    /\ disk \in [Paths -> {NoFile, 1, MaxVer}]
    /\ \E indexed \in SUBSET Paths :
         /\ store = [p \in Paths |-> IF p \in indexed THEN <<1>> ELSE <<>>]
         /\ INDEXED_FILES = write_index_manifest([p \in indexed |-> Signature(1, 1)])

\* the directories there can be at a start: DOC_FOLDER when it holds a file,
\* CHROMA_DB_PATH when it holds the manifest file or a store with chunks
DirsLeft ==
    {ds \in SUBSET {DOC_FOLDER, CHROMA_DB_PATH} :
        /\ (\E p \in DOMAIN disk : exists(disk, p)) => DOC_FOLDER \in ds
        /\ (INDEXED_FILES # Absent \/ \E p \in DOMAIN store : store[p] # <<>>) =>
              CHROMA_DB_PATH \in ds}

\* on_ready has run: "if not os.path.exists(DOC_FOLDER): os.makedirs("input")"
OnReady == DOC_FOLDER \in dirs

\* the process has just started; c of the MaxChanges changes are not to be made
ProcessStartAfter(c) ==
    /\ dirs \in DirsLeft
    /\ sigread = [t \in Inits |-> NoRead]
    /\ GLOBAL_VECTORSTORE = None
    /\ INGESTION_QUEUE = <<>>
    /\ nextId = 1
    /\ changes = c
    /\ observers = {}
    /\ ipc = [t \in Inits |-> "idle"]
    /\ inew = [t \in Inits |-> {}]
    /\ iupd = [t \in Inits |-> {}]
    /\ idel = [t \in Inits |-> {}]
    /\ idocs = [t \in Inits |-> <<>>]
    /\ imanifest = [t \in Inits |-> EmptyManifest]
    /\ icurrent = [t \in Inits |-> EmptyManifest]
    /\ itodo = [t \in Inits |-> {}]
    /\ inbox = [t \in Putters |-> <<>>]
    /\ wpc = [t \in Inits |-> "off"]
    /\ wcur = [t \in Inits |-> NoEvent]
    /\ wdocs = [t \in Inits |-> 0]
    /\ done = <<>>
    /\ raised = {}
    /\ bulkRuns = 0
    /\ loadFailed = [p \in Paths |-> 0]
    /\ ManifestIdle

ProcessStart == ProcessStartAfter(0)

Init ==
    /\ Persisted
    /\ storeFaults \in BOOLEAN
    /\ ProcessStart
    /\ OnReady
    /\ QueryInit
    /\ upstream = "up"

FsNext ==
    \E p \in Paths :
        \/ FsCreate(p) \/ FsModify(p) \/ FsDelete(p)
        \/ \E q \in Paths : FsMove(p, q)

\* the thread running initialize_vectorstore, its _update_manifest calls included
BulkNext(t) ==
    \/ IEnsureDirs(t) \/ IConstruct(t) \/ IScan(t) \/ IWalk(t) \/ ISignature(t)
    \/ ISize(t) \/ IDelete(t)
    \/ IPreDelete(t) \/ ILoad(t) \/ IAdd(t) \/ IManifest(t)
    \/ IStartWorker(t) \/ IStartWatcher(t)
    \/ (ipc[t] \in {"delete", "manifest"} /\ UpdateManifestStep(t))

\* the worker thread, its _update_manifest calls included
WorkerNext(w) ==
    \/ WGet(w) \/ WDelete(w) \/ WDeleted(w) \/ WPreDelete(w) \/ WLoad(w) \/ WAdd(w)
    \/ WManifest(w)
    \/ (wpc[w] \in {"deleted", "manifest"} /\ UpdateManifestStep(w))

\* the threads that put on the queue: the observers' handlers, a trigger_reindex caller
PutNext == \E t \in Putters : HandlerPut(t)

\* one process: the startup thread runs the bulk pass, then the worker and the watcher
Next ==
    \/ IStartup
    \/ BulkNext("startup")
    \/ WorkerNext("startup")
    \/ FsNext
    \/ PutNext

Spec == Init /\ [][Next]_vars

\* the same process when a query arrives while the startup thread is still initialising:
\* query_documents finds GLOBAL_VECTORSTORE unset and calls initialize_vectorstore too
RaceNext ==
    \/ IStartup
    \/ QueryEnsureStore
    \/ \E t \in Inits : BulkNext(t)
    \/ \E w \in Inits : WorkerNext(w)
    \/ FsNext
    \/ PutNext

\* first run on a machine: nothing indexed yet, some files already in DOC_FOLDER,
\* a vector store that does not raise; the folder changes at most RaceChanges times
FirstRun ==
    /\ disk \in [Paths -> {NoFile, 1}]
    /\ store = [p \in Paths |-> <<>>]
    /\ INDEXED_FILES = Absent
    /\ storeFaults = FALSE

RaceInit ==
    /\ FirstRun
    /\ ProcessStartAfter(MaxChanges - RaceChanges)
    /\ OnReady
    /\ QueryInit
    /\ upstream = "up"

SpecRace == RaceInit /\ [][RaceNext]_vars

\* a query against a running process: startup is over, the worker waits on the empty
\* queue, each path is either not indexed or indexed with its chunks in the store
Running ==
    /\ GLOBAL_VECTORSTORE = Chroma
    /\ dirs = {DOC_FOLDER, CHROMA_DB_PATH}
    /\ sigread = [t \in Inits |-> NoRead]
    /\ INGESTION_QUEUE = <<>>
    /\ nextId = 1
    /\ changes = 0
    /\ observers = {"startup"}
    /\ ipc = [t \in Inits |-> IF t = "startup" THEN "done" ELSE "idle"]
    /\ inew = [t \in Inits |-> {}]
    /\ iupd = [t \in Inits |-> {}]
    /\ idel = [t \in Inits |-> {}]
    /\ idocs = [t \in Inits |-> <<>>]
    /\ imanifest = [t \in Inits |-> EmptyManifest]
    /\ icurrent = [t \in Inits |-> EmptyManifest]
    /\ itodo = [t \in Inits |-> {}]
    /\ inbox = [t \in Putters |-> <<>>]
    /\ wpc = [t \in Inits |-> IF t = "startup" THEN "get" ELSE "off"]
    /\ wcur = [t \in Inits |-> NoEvent]
    /\ wdocs = [t \in Inits |-> 0]
    /\ done = <<>>
    /\ raised = {}
    /\ bulkRuns = 1
    /\ loadFailed = [p \in DOMAIN disk |-> 0]
    /\ ManifestIdle

Indexed ==
    \E sig \in [Paths -> {NoFile, 1}] :
        /\ disk = sig
        /\ store = [p \in Paths |-> IF sig[p] = NoFile THEN <<>> ELSE <<sig[p]>>]
        /\ INDEXED_FILES =
             write_index_manifest([p \in {x \in Paths : sig[x] # NoFile} |->
                                      Signature(sig[p], sig[p])])

QueryInitUp ==
    /\ Indexed
    /\ Running
    /\ storeFaults = FALSE
    /\ QueryInit
    /\ upstream = "up"

\* the running process with a vector store whose calls may raise: the worker thread is
\* scheduled again and again, the filesystem changes and a reindex is requested when
\* the environment likes
LiveInit ==
    /\ Indexed
    /\ Running
    /\ storeFaults = TRUE
    /\ QueryInit
    /\ upstream = "up"

LiveNext == WorkerNext("startup") \/ FsNext \/ TriggerReindex \/ PutNext

\* the threads of the running process are scheduled again and again: the worker, the
\* observer's handler and a trigger_reindex caller inside its loop
LiveFairness ==
    /\ WF_vars(WorkerNext("startup"))
    /\ \A t \in Putters : WF_vars(HandlerPut(t))

SpecLive == LiveInit /\ [][LiveNext]_vars /\ LiveFairness

\* the running process with a vector store that never raises
SpecNoFaults == QueryInitUp /\ [][LiveNext]_vars /\ LiveFairness

\* threads inside _update_manifest at the same time (the worker and the bulk pass of
\* a second initialize_vectorstore, or two workers) and a get_indexed_files caller,
\* on the state some earlier run left
ManifestInit ==
    /\ Persisted
    /\ Running
    /\ storeFaults = FALSE
    /\ QueryInit
    /\ upstream = "up"

SpecManifest == ManifestInit /\ [][ManifestNext]_vars

\* query_documents runs the graph to completion in its own call: every superstep that
\* can run does run
SpecQuery == QueryInitUp /\ [][QNext]_vars /\ WF_vars(QNext)

\* the first start after an upgrade from a version that kept the manifest as a
\* newline-separated list: the listed files have their chunks in the persisted store
LegacyInit ==
    /\ INDEXED_FILES \in LegacyFiles
    /\ disk \in [Paths -> {NoFile, 1}]
    /\ store = [p \in Paths |-> IF p \in DOMAIN manifest THEN <<1>> ELSE <<>>]
    /\ storeFaults = FALSE
    /\ ProcessStart
    /\ OnReady
    /\ QueryInit
    /\ upstream = "up"

SpecLegacy == LegacyInit /\ [][Next]_vars

\* a restart after indexed_files.txt was removed, or after the process was killed
\* inside _write_index_manifest with the file opened for writing and nothing dumped:
\* the persisted store still holds the chunks of the files indexed before
LostManifestInit ==
    /\ INDEXED_FILES \in {Absent, Truncated}
    /\ disk \in [Paths -> {NoFile, 1}]
    /\ \E indexed \in SUBSET Paths :
         store = [p \in Paths |-> IF p \in indexed THEN <<1>> ELSE <<>>]
    /\ storeFaults = FALSE
    /\ ProcessStart
    /\ OnReady
    /\ QueryInit
    /\ upstream = "up"

SpecRestart == LostManifestInit /\ [][Next]_vars

\* the watcher of the running process alone: any event of the folder is delivered and
\* the handler makes its puts, the worker is still in its debounce sleep
WatchNext ==
    \/ \E kind \in FsKinds : \E event \in FsEvents(kind) : Watch(kind, event)
    \/ PutNext

SpecWatcher == QueryInitUp /\ [][WatchNext]_vars

\* the running process on a folder where "~$a.txt" can appear next to a.txt and b.pdf:
\* the watcher delivers the events of these files, the worker consumes the queue, and
\* a reindex is requested when the environment likes
Folder == Paths \cup {"~$a.txt"}

FolderInit ==
    /\ disk \in [Folder -> {NoFile, 1}]
    /\ disk["~$a.txt"] = NoFile
    /\ store = [p \in Folder |-> IF disk[p] = NoFile THEN <<>> ELSE <<disk[p]>>]
    /\ INDEXED_FILES =
         write_index_manifest([p \in {x \in Folder : disk[x] # NoFile} |->
                                  get_file_signature(disk, p)])
    /\ Running
    /\ storeFaults = FALSE
    /\ QueryInit
    /\ upstream = "up"

FolderNext ==
    \/ WorkerNext("startup")
    \/ \E kind \in FsKinds : \E event \in FsEvents(kind) :
          /\ event.src_path \in Folder
          /\ event.dest_path \in Folder \cup {"none"}
          /\ Watch(kind, event)
    \/ TriggerReindex
    \/ PutNext

SpecFolder == FolderInit /\ [][FolderNext]_vars

\* a query in a process whose store was never initialised ("python document_engine.py",
\* line 613, or a request served before on_ready's initialisation began): the query
\* thread runs initialize_vectorstore itself, then the graph; the model and embedding
\* services may be unreachable
ColdInit ==
    /\ Persisted
    /\ storeFaults \in BOOLEAN
    /\ ProcessStart
    /\ QueryInit
    /\ upstream \in {"up", "flaky"}

ColdNext == QueryEnsureStore \/ BulkNext("query") \/ QNext

SpecCold == ColdInit /\ [][ColdNext]_vars /\ WF_vars(ColdNext)


\* ------------------------------------------------------------- claims
\* no bulk pass is between its first and last step, no worker holds an event
Idle ==
    /\ \A t \in Inits : ipc[t] \in {"idle", "done", "failed"}
    /\ \A w \in Inits : wpc[w] \in {"off", "get", "dead"}

\* C1: whenever the worker and the bulk pass are idle, a path is a key of the
\* manifest if and only if the store holds at least one chunk of that path.
C1_ManifestIffStore ==
    Idle => \A p \in Paths : (p \in DOMAIN manifest) <=> (store[p] # <<>>)

\* the step in which the _update_manifest call of thread t sets (creates or changes)
\* the entry of p in the dict it goes on to write
ManifestWritten(t, p) ==
    /\ mpc[t] = "size" /\ mpc'[t] = "open"
    /\ margs[t].file_path = p
    /\ p \notin DOMAIN mlocal[t] \/ mlocal'[t][p] # mlocal[t][p]

\* the processing step that makes the call has inserted chunks of p: the worker calls
\* only after add_documents returned, the bulk pass after its bulk insert, which holds
\* chunks exactly of the paths in docs
InsertedInStep(t, p) ==
    \/ wpc[t] = "manifest" /\ wcur[t].file_path = p
    \/ ipc[t] = "manifest" /\ p \in DOMAIN idocs[t]

\* C2: a manifest entry for a path is written only in a processing step in which
\* chunks of that same path were inserted into the store.
C2_WriteOnlyAfterInsert ==
    [][\A t \in Inits : \A p \in Paths :
          ManifestWritten(t, p) => InsertedInStep(t, p)]_vars

\* C9: when the worker starts on an Add or Update event it first removes the chunks
\* stored for the path, so a repeated event cannot pile up a second copy.  Stated
\* for the runs in which no store call raises (a raising delete of an Update is
\* passed over by design and is not what this is about).
C9_AddUpdateDeleteFirst ==
    [][\A w \in Inits :
          (~storeFaults /\ wpc[w] = "sleep" /\ wpc'[w] = "load") =>
             store'[wcur[w].file_path] = <<>>]_vars

\* C10: once the worker has processed a Delete event the store holds no chunk of the
\* path and the manifest has no entry for it, also when the store delete raises
\* because nothing is stored for the path.
C10_DeleteRemovesBoth ==
    [][\A w \in Inits :
          (wcur[w].action = "delete" /\ wcur'[w] = NoEvent) =>
             /\ store'[wcur[w].file_path] = <<>>
             /\ wcur[w].file_path \notin DOMAIN manifest']_vars

\* the steps of the worker on an Add or Update event that no successful load of that
\* event precedes: up to and including a load that yields nothing, and whatever the
\* worker would still do for the event after such a load
NotLoaded(w) ==
    /\ wcur[w].action \in {"add", "update"}
    /\ \/ wpc[w] \in {"sleep", "load"} /\ wpc'[w] # "add"
       \/ wpc[w] \in {"add", "manifest"} /\ loadFailed[wcur[w].file_path] # 0

\* C11: when the worker processes an Add or Update event and the load fails or yields
\* nothing, the manifest after the event is the manifest before it: no step taken while
\* the event is held and not loaded changes the manifest.
C11_LoadFailureKeepsManifest ==
    [][\A w \in Inits : NotLoaded(w) => manifest' = manifest]_vars

\* the worker is back at the queue, a file it was told about is on disk, its load
\* yielded nothing and the manifest has no entry for it
C11_Witness ==
    /\ wpc["startup"] = "get" /\ done # <<>>
    /\ \E p \in Paths : /\ exists(disk, p)
                         /\ loadFailed[p] = disk[p]
                         /\ p \notin DOMAIN manifest

\* what a startup bulk pass beginning now would do with p: ingest it (new or updated)
Eligible(p) ==
    p \in new_files(manifest, current_files(disk))
           \cup updated_files(manifest, current_files(disk))

\* C12: a file whose latest load yielded nothing stays eligible for retry: the store
\* holds no chunk of it and the next startup bulk pass classifies it as new or updated,
\* also when the load was that of an Update queued by trigger_reindex.
C12_FailedLoadStaysEligible ==
    \A p \in Paths :
        (exists(disk, p) /\ loadFailed[p] = disk[p]) =>
            (store[p] = <<>> /\ Eligible(p))

\* initialize_vectorstore has been left by thread t before it started the worker and
\* the watcher
Left(t) == ipc[t] = "failed"

\* C13: a failing add_documents costs only the manifest update of what was being
\* added: in the worker the manifest stays as it is and the loop goes on to the next
\* event, and a startup pass whose bulk insert failed still starts the worker and the
\* watcher.
C13_AddFailureIsolated ==
    [][/\ \A t \in Inits : ipc[t] = "add" => ~Left(t)'
       /\ \A w \in Inits :
             (wpc[w] = "add" /\ wcur[w].id \in raised') =>
                 (manifest' = manifest /\ wpc'[w] = "get")]_vars

\* C14: in the startup bulk pass a file whose parse failed or gave nothing does not
\* stop the others, and the manifest writes that end the pass record exactly the new
\* and updated files that were parsed and inserted: those get an entry with their
\* current signature, the failed ones keep the entry (or the absence) they had.
C14_BulkRecordsExactlyLoaded ==
    [][\A t \in Inits : \A p \in files_to_ingest(t) :
          ipc[t] = "manifest" =>
              /\ (ManifestWritten(t, p) => p \in DOMAIN idocs[t])
              /\ (ipc'[t] = "start" /\ p \in DOMAIN idocs[t] /\ changes = 0) =>
                    (p \in DOMAIN manifest' /\ manifest'[p] = get_file_signature(disk, p))]_vars

\* bulk pass t holds loaded content of p that it is inserting or has just inserted
BulkInserting(t, p) == ipc[t] \in {"add", "manifest"} /\ p \in DOMAIN idocs[t]

\* worker w holds loaded content of p that it is inserting or has just inserted
WorkerInserting(w, p) == wpc[w] \in {"add", "manifest"} /\ wcur[w].file_path = p

\* C15: a worker and a watcher exist only once the bulk pass that starts them has
\* made all its store and manifest changes, so a bulk pass and a worker never both
\* insert chunks of the same file.
C15_WatcherAfterBulkPass ==
    /\ \A t \in Inits : /\ (wpc[t] # "off" => ipc[t] \in {"observe", "done"})
                         /\ (t \in observers => ipc[t] = "done")
    /\ \A t, w \in Inits : \A p \in Paths : ~(BulkInserting(t, p) /\ WorkerInserting(w, p))

\* bulk pass t is past its directory walk and has not yet started the watcher
PastWalk(t) == ipc[t] \in {"delete", "predelete", "load", "add", "manifest", "start"}

\* C16: a change to a supported file made while the startup bulk pass is between its
\* directory walk and the start of the watcher is not lost: the change puts an event
\* on the queue (for the worker to process after the pass).
C16_ChangeDuringBulkQueued ==
    [][((PastWalk("startup") \/ ipc["startup"] = "observe") /\ disk' # disk) =>
          \E t \in Inits : Len(inbox'[t]) > Len(inbox[t])]_vars

\* the walk of pass t listed p and read its signature, the last one in this step
Walked(t, p) == p \in DOMAIN icurrent[t] \cup itodo[t]
SignatureRead(t, p) ==
    IF p \in DOMAIN icurrent[t] THEN icurrent[t][p]
    ELSE Signature(sigread[t].mtime, getsize(disk, p))

\* the files a bulk pass has nothing to do for: not new, not updated, not deleted
Untouched(t) == Paths \ (inew[t] \cup iupd[t] \cup idel[t])

\* C17: the walk and the diff put a file on disk and not in the manifest into new, a
\* file in both whose stored signature differs from its mtime/size into updated, a
\* manifest path with no file into deleted, and leave a file in both with an equal
\* signature in none of them; for a file in none of them the pass deletes nothing from
\* the store, loads nothing, adds nothing and writes no manifest entry.
C17_PartitionAndSkipUnchanged ==
    [][\A t \in Inits :
          /\ (ipc[t] \in {"walk", "sig"} /\ ipc'[t] = "delete") =>
                \A p \in Paths :
                    /\ p \in inew'[t] <=> (Walked(t, p) /\ p \notin DOMAIN imanifest[t])
                    /\ p \in iupd'[t] <=> (/\ Walked(t, p)
                                            /\ p \in DOMAIN imanifest[t]
                                            /\ imanifest[t][p] # SignatureRead(t, p))
                    /\ p \in idel'[t] <=> (~Walked(t, p) /\ p \in DOMAIN imanifest[t])
          /\ PastWalk(t) =>
                \A p \in Untouched(t) :
                    /\ store'[p] = store[p]
                    /\ margs'[t].file_path # p
                    /\ p \notin DOMAIN idocs'[t]]_vars

\* a bulk pass has ingested one file and is about to start the watcher, while another
\* file, indexed with the signature it still has, was in none of the pass's lists
C17_Witness ==
    /\ ipc["startup"] = "start"
    /\ DOMAIN idocs["startup"] # {}
    /\ \E p \in Untouched("startup") :
          /\ disk[p] # NoFile /\ p \in DOMAIN manifest /\ manifest[p] = get_file_signature(disk, p)
          /\ store[p] = <<1>>


\* C3: every query terminates whatever retrieval and grading return: transform_query
\* runs at most 3 times, generate_rag runs exactly once, and an answer is produced.
C3_QueryTerminates ==
    /\ [](/\ transformRuns <= 3
          /\ generateRuns <= 1
          /\ qpc \in {"end", "returned"} => (generateRuns = 1 /\ generation = "answer"))
    /\ (qpc # "idle") ~> (qpc = "returned")

\* the query ended after three rewrites without any chunk ever graded relevant
C3_Witness ==
    qpc = "returned" /\ transformRuns = 3 /\ documents = <<>> /\ generation = "answer"

\* C4: after grade_documents the next node is transform_query exactly when no chunk
\* survived grading and loop_step is below 3; otherwise it is generate_rag.
C4_RoutingAfterGrade ==
    [][(qpc = "grade_documents" /\ qpc' # qpc) =>
          /\ qpc' \in {"transform_query", "generate_rag"}
          /\ qpc' = "transform_query" <=> (documents' = <<>> /\ loop_step' < 3)]_vars

\* generate_rag is about to run with an empty chunk list, after the third rewrite
C4_Witness == qpc = "generate_rag" /\ documents = <<>> /\ loop_step = 3


\* the events some worker has dequeued and not yet finished
InFlight == {w \in Inits : wcur[w] # NoEvent}

\* C5: every queued event is consumed once and events are processed strictly in
\* enqueue order: an event's processing ends before a later event's begins.  Event ids
\* are given in enqueue order.
C5_InOrderExactlyOnce ==
    /\ Cardinality(InFlight) <= 1
    /\ \A i, j \in 1..Len(done) : i < j => done[i] < done[j]
    /\ \A w \in InFlight : \A i \in 1..Len(done) : done[i] < wcur[w].id
    /\ \A i \in 1..Len(INGESTION_QUEUE) :
         /\ \A j \in 1..Len(done) : done[j] < INGESTION_QUEUE[i].id
         /\ \A w \in InFlight : wcur[w].id < INGESTION_QUEUE[i].id

\* C6: under any interleaving of the startup thread and a concurrent query, the bulk
\* pass runs once and at most one worker thread and one observer are ever started.
C6_SingleInitialisation ==
    /\ bulkRuns <= 1
    /\ Cardinality({w \in Inits : wpc[w] # "off"}) <= 1
    /\ Cardinality(observers) <= 1


\* a worker thread exists only once the store handle is set (and no observer before):
\* the "GLOBAL_VECTORSTORE is None" branch of the worker is never taken
WorkerHasStore ==
    (observers # {} \/ \E w \in Inits : wpc[w] # "off") => GLOBAL_VECTORSTORE # None

Range(s) == {s[i] : i \in 1..Len(s)}
EventIds == 1..(2 * MaxChanges)
Queued(i) == \E k \in 1..Len(INGESTION_QUEUE) : INGESTION_QUEUE[k].id = i

\* the threads between acquiring MANIFEST_LOCK and leaving the with block
InsideLock == {t \in Mutators : mpc[t] \in {"load", "sig", "size", "open", "dump"}}

\* C19: every manifest mutation is one read-modify-write under the single lock, so no
\* update is lost: at most one thread is inside the with block, what a mutation is
\* about to write is its change applied to what the file holds at that moment, and
\* what it wrote is what the file holds when it returns.
C19_NoLostManifestUpdate ==
    /\ [](Cardinality(InsideLock) <= 1)
    /\ [][\A t \in Mutators :
             /\ (mpc[t] = "open" /\ mpc'[t] = "dump") =>
                    mlocal[t] = update_manifest(manifest, margs[t].action,
                                                margs[t].file_path,
                                                get_file_signature(disk,
                                                                   margs[t].file_path))
             /\ (mpc[t] = "dump" /\ mpc'[t] = "idle") => manifest' = mlocal[t]]_vars

\* one thread is about to write its change of one path while the other, called for
\* another path, waits for the lock
C19_Witness ==
    \E t, u \in Mutators :
        /\ mpc[t] = "open" /\ mpc[u] = "acquire"
        /\ margs[t].file_path # margs[u].file_path
        /\ mlocal[t] # manifest

\* r is the manifest as it is after the mutation thread t is writing, or a manifest
\* that this mutation turns into what t is writing
BeforeOrAfter(r, t) ==
    \/ r = mlocal[t]
    \/ update_manifest(r, margs[t].action, margs[t].file_path,
                       get_file_signature(disk, margs[t].file_path)) = mlocal[t]

\* C20: no reader of the manifest observes a partially written manifest: what a
\* get_indexed_files call returns while a mutation is writing the file is the complete
\* manifest from before or from after that mutation, never the empty or cut-off
\* content of the file in between.
C20_NoPartialManifestRead ==
    [][(mpc[Reader] = "load" /\ mpc'[Reader] = "idle") =>
          \A t \in Mutators : mpc[t] = "dump" => BeforeOrAfter(mlocal'[Reader], t)]_vars

\* an Add event of p waits on the queue
QueuedAdd(p) ==
    \E k \in 1..Len(INGESTION_QUEUE) :
        INGESTION_QUEUE[k].action = "add" /\ INGESTION_QUEUE[k].file_path = p

\* get_indexed_files() holds p with the signature the file has
IndexedNow(p) ==
    /\ exists(disk, p)
    /\ p \in DOMAIN manifest
    /\ manifest[p] = get_file_signature(disk, p)

\* C18: with a store whose insertions succeed, a supported file added while the
\* watcher runs is eventually listed by get_indexed_files() with its actual signature,
\* unless the file is gone again or the load of the file as it is yielded nothing.
C18_AddedFileEventuallyIndexed ==
    \A p \in Paths :
        QueuedAdd(p) ~> \/ IndexedNow(p)
                        \/ ~exists(disk, p)
                        \/ loadFailed[p] = disk[p]

\* one file was created with a signature no file had before, its Add event was
\* processed without an exception, and it is listed with that signature
C18_Witness ==
    /\ changes = 1 /\ done = <<1>> /\ raised = {}
    /\ \E p \in Paths : IndexedNow(p) /\ disk[p] = MaxVer /\ store[p] = <<MaxVer>>

\* C8: whatever exception the processing of one event raises, the consumer loop keeps
\* running: every event put on the queue is eventually dequeued and processed.
C8_WorkerSurvivesExceptions ==
    \A i \in EventIds : Queued(i) ~> (i \in Range(done))

\* an event raised, and an event enqueued after it has been processed
C8_Witness == \E i \in raised : \E j \in Range(done) : j > i


\* the graph needs at most 12 supersteps (3 rounds of retrieve, grade_documents,
\* transform_query, then retrieve, grade_documents, generate_rag)
StepsBelowCeiling == steps <= 12 /\ steps < RECURSION_LIMIT

\* C22: query_documents never raises to its caller when an upstream service is
\* unreachable during store construction, retrieval, grading, rewriting or generation:
\* the call ends with an explicit error result.
C22_QueryNeverRaises ==
    /\ query_outcome # "raised"
    /\ query_outcome = "error result" => result \in {error_result(TRUE), error_result(FALSE)}

\* C23: grade_documents keeps exactly the retrieved chunks whose grade is the strict
\* value "yes", in their original rank order; a chunk with any other grade is
\* dropped, and the question is left unchanged.
C23_GradeKeepsStrictYes ==
    [][(qpc = "grade_documents" /\ qpc' \in {"transform_query", "generate_rag"}) =>
          LET kept == {i \in DOMAIN documents : scores'[i] = "yes"} IN
          /\ Len(documents') = Cardinality(kept)
          /\ \A i \in kept : documents'[Cardinality({k \in kept : k <= i})] = documents[i]
          /\ question' = question]_vars

\* two chunks were graded, the first "Yes" and the second "yes"; only one was kept
C23_Witness ==
    /\ qpc = "generate_rag"
    /\ Len(scores) = 2 /\ scores[1] = "Yes" /\ scores[2] = "yes"
    /\ Len(documents) = 1

\* C24: a successful query with citations returns exactly one citation per chunk
\* used in generate_rag, in the same order, each with that chunk's file name, its
\* location (page + 1 of a PDF chunk, start offset otherwise) and the preview of its
\* content (at most the first 50 characters, then "..."); no chunk, no citation.
C24_CitationPerUsedChunk ==
    (qpc = "returned" /\ include_sources) =>
        /\ DOMAIN result = {"answer", "citations"}
        /\ Len(result.citations) = Len(context)
        /\ \A i \in DOMAIN context :
              LET cit == result.citations[i]
                  used == context[i]
                  c == documents[i]
              IN  /\ used.page_content.text = <<c[1], c[2], c[3]>>
                  /\ cit.file = c[1]
                  /\ cit.file = used.source_name
                  /\ cit.location[2] = IF c[1] = "b.pdf" THEN c[3] + 1 ELSE c[3]
                  /\ cit.snippet.text = used.page_content.text
                  /\ cit.snippet.upto = IF c[4] < 50 THEN c[4] ELSE 50
                  /\ cit.snippet.suffix = "..."

\* a query returned two citations, of a short chunk of a.txt and a page of b.pdf
C24_Witness ==
    /\ qpc = "returned" /\ include_sources
    /\ Len(context) = 2 /\ Len(result.citations) = 2
    /\ result.citations[1].file = "a.txt" /\ result.citations[1].snippet.upto = 20
    /\ result.citations[2].file = "b.pdf" /\ result.citations[2].location[2] = 2

\* generate_rag ran with no chunk and the citation list is empty
C24_WitnessEmpty ==
    /\ qpc = "returned" /\ include_sources
    /\ generateRuns = 1 /\ context = <<>> /\ result.citations = <<>>

\* C30: for every chunk used in generate_rag, the file name and the location of the
\* returned citation are the file name and the location written in that chunk's
\* context header.
C30_CitationMatchesHeader ==
    (qpc = "returned" /\ include_sources) =>
        \A i \in DOMAIN context :
            /\ result.citations[i].file = context[i].source_name
            /\ result.citations[i].location = context[i].location

\* the names with a supported extension, whatever its case
Sup(p) == p \in {"a.txt", "b.pdf", "C.PDF", "~$a.txt"}

\* the (action, path) tuples on the queue followed by those the handler of the running
\* observer has still to put, in that order
Enqueued ==
    [i \in 1..Len(INGESTION_QUEUE) |->
        <<INGESTION_QUEUE[i].action, INGESTION_QUEUE[i].file_path>>] \o inbox["startup"]

\* C25: the watcher enqueues one event per filesystem event on a supported extension
\* and nothing for directories or other extensions; a rename enqueues Delete(old
\* path) and then Add(new path), each half only when its own path is supported.
C25_WatcherEnqueues ==
    /\ [][\A kind \in FsKinds : \A event \in FsEvents(kind) :
          Watch(kind, event) =>
             LET src == event.src_path
                 dest == event.dest_path
                 one(action) == IF Sup(src) THEN << <<action, src>> >> ELSE <<>>
             IN  Enqueued' = Enqueued \o
                      (IF event.is_directory THEN <<>>
                       ELSE CASE kind = "created" -> one("add")
                              [] kind = "modified" -> one("update")
                              [] kind = "deleted" -> one("delete")
                              [] kind = "moved" ->
                                   one("delete") \o
                                   (IF Sup(dest) THEN << <<"add", dest>> >> ELSE <<>>))]_vars
    /\ [][changes' = changes => Enqueued' = Enqueued]_vars

\* one event was delivered, a rename of a.txt to C.PDF: Delete(a.txt), then Add(C.PDF)
C25_Witness ==
    /\ changes = 1
    /\ Len(INGESTION_QUEUE) = 2
    /\ INGESTION_QUEUE[1].action = "delete" /\ INGESTION_QUEUE[1].file_path = "a.txt"
    /\ INGESTION_QUEUE[2].action = "add" /\ INGESTION_QUEUE[2].file_path = "C.PDF"
    /\ disk["a.txt"] = NoFile

\* two events were delivered, a directory or notes.tmp among them, and one enqueued
C25_WitnessIgnored ==
    /\ changes = 2
    /\ Len(INGESTION_QUEUE) = 1
    /\ INGESTION_QUEUE[1].action = "update"

\* the paths a legacy list names on a non-blank line
Listed == {p \in Paths : \E i \in DOMAIN INDEXED_FILES.lines : INDEXED_FILES.lines[i] = p}

\* the _update_manifest call of thread t is a delete of p
DeletedByCall(t, p) == margs[t].action = "delete" /\ margs[t].file_path = p

\* C26: a legacy newline-separated manifest reads as one entry per listed path with an
\* empty signature; the manifest is never written in that format: after any mutation
\* the file is a JSON object that still holds every path not deleted by the mutation.
C26_LegacyReadNeverWritten ==
    /\ [](INDEXED_FILES.format = "legacy" =>
            /\ DOMAIN manifest = Listed
            /\ \A p \in Listed : manifest[p] = EmptySignature)
    /\ [][INDEXED_FILES'.format = "legacy" => INDEXED_FILES' = INDEXED_FILES]_vars
    /\ [][\A t \in Inits :
             /\ (mpc[t] = "load" /\ mpc'[t] \in {"sig", "open"}) =>
                   \A p \in DOMAIN manifest : p \in DOMAIN mlocal'[t] \/ DeletedByCall(t, p)
             /\ (mpc[t] = "size" /\ mpc'[t] = "open") =>
                   DOMAIN mlocal[t] \subseteq DOMAIN mlocal'[t]
             /\ (mpc[t] = "dump" /\ mpc'[t] = "idle") =>
                   /\ INDEXED_FILES'.format = "json"
                   /\ manifest' = mlocal[t]]_vars

\* the manifest was rewritten as JSON and an entry read from the legacy list, with its
\* empty signature, is still in it
C26_Witness ==
    /\ INDEXED_FILES.format = "json"
    /\ \E p \in DOMAIN manifest : manifest[p] = EmptySignature

\* C28: the signature the manifest stores for a file is the signature the file had
\* when its content was loaded for insertion, also when the file is modified between
\* the load and the manifest write, in the worker and in the bulk pass.
C28_ManifestSignatureOfLoadedContent ==
    [][\A t \in Inits :
          (mpc[t] = "size" /\ mpc'[t] = "open") =>
              LET p == margs[t].file_path IN
              /\ (wpc[t] = "manifest" => mlocal'[t][p] = Signature(wdocs[t], wdocs[t]))
              /\ (ipc[t] = "manifest" /\ p \in DOMAIN idocs[t]) =>
                    mlocal'[t][p] = Signature(idocs[t][p], idocs[t][p])]_vars

\* C29: the store never holds the chunks of two ingestions of the same path at the
\* same time, across bulk passes, restarts and worker events.
C29_NoDuplicateChunks == \A p \in Paths : Len(store[p]) <= 1

\* the files the bulk pass and trigger_reindex skip although their extension is
\* supported
Skipped == {"~$a.txt"}

\* C31: a file that the bulk pass and trigger_reindex skip (supported extension, name
\* starting with "~$") is never enqueued by the watcher and never gets chunks or a
\* manifest entry through the worker.
C31_SkippedFilesNeverIndexed ==
    \A p \in Skipped :
        /\ \A i \in DOMAIN INGESTION_QUEUE : INGESTION_QUEUE[i].file_path # p
        /\ \A w \in Inits : wcur[w].file_path # p
        /\ store[p] = <<>>
        /\ p \notin DOMAIN manifest

\* the worker never inserts chunks or a manifest entry for a skipped file
SkippedNeverStored == \A p \in Skipped : store[p] = <<>> /\ p \notin DOMAIN manifest

\* trigger_reindex and the bulk pass's walk leave the skipped file out
WalkSkips == \A p \in Skipped : p \notin walk(disk)

====
